---- MODULE Spec2Model ----
(***************************************************************************)
(* A model of torch/_guards.py: Guard identity, the checkpointable         *)
(* GuardsContext and ModuleContext, and the dynamically scoped             *)
(* TracingContext.                                                         *)
(*                                                                         *)
(* Python objects are modelled by reference.  A heap variable maps an      *)
(* object's position (its identity) to its contents, and a field that      *)
(* holds an object holds its position, so that two names for one object    *)
(* (aliasing) are two equal positions.                                     *)
(***************************************************************************)
EXTENDS Integers, Sequences, FiniteSets, TLC

(* ------------------------------------------------------------------ *)
(* Optional values: None is the empty set, a present value x is {x}.   *)
(* ------------------------------------------------------------------ *)
None == {}
Some(x) == {x}
Val(o) == CHOOSE x \in o : TRUE

(* ------------------------------------------------------------------ *)
(* Bounds of the model.                                                *)
(* ------------------------------------------------------------------ *)
MaxGuards == 2
MaxCheckpoints == 1
MaxExports == 1
NumContexts == 2
MaxDepth == 4
MaxRegisters == 2
MaxModuleCheckpoints == 1
MaxPoolGuards == 2

VARIABLES
    guards,          \* heap of Guard objects: Seq of Guard records
    setobj,          \* heap of Python set objects: Seq of sets of Guard positions
    dynamo_guards,   \* GuardsContext.dynamo_guards: position of a set object
    gcheckpoints,    \* GuardsCheckpointState objects: Seq of [dynamo_guards: position]
    gsnap,           \* history: contents of the live set when checkpoint c was taken
    grestored,       \* history: has checkpoint c been passed to restore_graphstate
    glast,           \* history: the last GuardsContext call and what it saw
    current,         \* _CURRENT_TRACING_CONTEXT: None or a TracingContext
    frame_summary_stack, \* TracingContext.frame_summary_stack, per TracingContext
    scopes,          \* the open `with` scopes, outermost first: the suspended
                     \* generators of tracing() and current_frame() with their locals
    exc,             \* an exception is propagating
    tlast,           \* history: the last scope entry or exit
    dictobj,         \* heap of Python dict objects: Seq of functions key -> Source
    names_to_sources, \* ModuleContext.names_to_sources: position of a dict object
    mcheckpoints,    \* ModuleCheckpointState objects: Seq of [names_to_sources: position]
    issued,          \* the uniquifier's state: how many names it has issued
    msnap,           \* history: the live mapping when checkpoint c was taken
    mrestored,       \* history: has checkpoint c been passed to restore_graphstate
    mlast,           \* history: the last ModuleContext call and what it saw
    ret,             \* the last call of a comparison (==, hash, diff) or of another
                     \* pure method, with its arguments and its result
    aotautograd_guards, \* GuardsContext.aotautograd_guards: Seq of GuardEnvExpr
    asnap            \* history: aotautograd_guards when checkpoint c was taken

varsG == <<guards, setobj, dynamo_guards, gcheckpoints, gsnap, grestored, glast>>
varsT == <<current, frame_summary_stack, scopes, exc, tlast>>

varsM == <<dictobj, names_to_sources, mcheckpoints, issued, msnap, mrestored, mlast>>

varsA == <<aotautograd_guards, asnap>>

vars == <<varsG, varsT, varsM, ret, varsA>>

(* ------------------------------------------------------------------ *)
(* GuardSource                                                         *)
(* ------------------------------------------------------------------ *)
GuardSource ==
    {"LOCAL", "GLOBAL", "LOCAL_NN_MODULE", "GLOBAL_NN_MODULE",
     "CONSTANT", "RANDOM_VALUE", "SHAPE_ENV"}

GuardSourceValue(s) ==
    CASE s = "LOCAL" -> 0
      [] s = "GLOBAL" -> 1
      [] s = "LOCAL_NN_MODULE" -> 2
      [] s = "GLOBAL_NN_MODULE" -> 3
      [] s = "CONSTANT" -> 4
      [] s = "RANDOM_VALUE" -> 5
      [] s = "SHAPE_ENV" -> 6

(* ------------------------------------------------------------------ *)
(* Guard                                                               *)
(* ------------------------------------------------------------------ *)
\* Guard(name, source, create_fn, is_volatile): the export fields default to None.
\* A name is a short string, modelled as a sequence of character codes; a
\* create_fn is a function object, modelled by its identity id(create_fn).
NewGuardObject(name, source, create_fn, is_volatile) ==
    [name |-> name, source |-> source, create_fn |-> create_fn,
     is_volatile |-> is_volatile,
     guard_types |-> None, code_list |-> None,
     obj_weakref |-> None, guarded_class_weakref |-> None]

\* hash() of a str, an enum member and an int, and of the 3-tuple of them.  The
\* model keeps what the code relies on: each is a function of its argument
\* alone, into a range small enough for distinct arguments to collide.
HashModulus == 7
RECURSIVE StrHash(_)
StrHash(s) == IF s = <<>> THEN 0 ELSE (3 * StrHash(Tail(s)) + Head(s)) % HashModulus
TupleHash(a, b, c) == (((a * 5 + b) * 5) + c) % HashModulus

\* Guard.__hash__
Guard_hash(g) ==
    TupleHash(StrHash(g.name), GuardSourceValue(g.source), g.create_fn)

\* Guard.__eq__ is the one @dataclasses.dataclass generates (eq=True is the
\* default, and the class defines no __eq__ of its own): the tuples of ALL
\* fields are compared, in declaration order.
Guard_eq(g1, g2) ==
    <<g1.name, g1.source, g1.create_fn, g1.is_volatile,
      g1.guard_types, g1.code_list, g1.obj_weakref, g1.guarded_class_weakref>>
    = <<g2.name, g2.source, g2.create_fn, g2.is_volatile,
        g2.guard_types, g2.code_list, g2.obj_weakref, g2.guarded_class_weakref>>

\* Python truthiness of an Optional[List]: None and [] are both falsy.
Falsy(optlist) == optlist = None \/ Val(optlist) = <<>>

set_export_info_overwrite(g, guard_type, guarded_class, code_list, obj_weakref) ==
    [guard |-> [g EXCEPT !.guard_types =
                       Some(Append(IF Falsy(g.guard_types) THEN <<>>
                                   ELSE Val(g.guard_types), guard_type)),
                   !.guarded_class_weakref = guarded_class,
                   !.code_list = IF Falsy(g.code_list) THEN Some(code_list)
                                 ELSE Some(Val(g.code_list) \o code_list),
                   !.obj_weakref = obj_weakref],
     raised |-> FALSE]

\* Guard.set_export_info, statement by statement.  The result is the Guard
\* after the call and whether the call raised AssertionError; a failed
\* assertion leaves the assignments made before it in place.
set_export_info(g, guard_type, guarded_class, code_list, obj_weakref) ==
    LET g1 == [g EXCEPT !.guard_types =
                   Some(Append(IF Falsy(g.guard_types) THEN <<>>
                               ELSE Val(g.guard_types), guard_type))]
        classOk == g1.guarded_class_weakref = guarded_class
                   \/ g1.guarded_class_weakref = None
        g2 == [g1 EXCEPT !.guarded_class_weakref = guarded_class]
        g3 == [g2 EXCEPT !.code_list =
                   IF Falsy(g2.code_list) THEN Some(code_list)
                   ELSE Some(Val(g2.code_list) \o code_list)]
        objOk == g3.obj_weakref = obj_weakref \/ g3.obj_weakref = None
        g4 == [g3 EXCEPT !.obj_weakref = obj_weakref]
    IN  IF ~classOk THEN [guard |-> g1, raised |-> TRUE]
        ELSE IF ~objOk THEN [guard |-> g3, raised |-> TRUE]
        ELSE [guard |-> g4, raised |-> FALSE]

(* ------------------------------------------------------------------ *)
(* Python's set of Guard objects                                       *)
(* ------------------------------------------------------------------ *)
\* key in set: some member has the key's hash and is the key itself or == it.
\* `heap` gives the Guard at each position, `s` is a set of positions.
SetContains(heap, s, k) ==
    \E m \in s : /\ Guard_hash(heap[m]) = Guard_hash(heap[k])
                 /\ (m = k \/ Guard_eq(heap[m], heap[k]))

\* set.add(k)
SetAdd(heap, s, k) == IF SetContains(heap, s, k) THEN s ELSE s \cup {k}

\* set.difference(other): the members of s that are not in other.
SetDifference(heap, s, other) == {m \in s : ~SetContains(heap, other, m)}

\* set(s): a new set object with the same members.  The members are the
\* value, and `fresh`, the position allocated for the copy, is the object.
SetCopy(s) == s

NewSetObject_alias(orig, fresh) == orig

NewSetObject(orig, fresh) == fresh

(* ------------------------------------------------------------------ *)
(* TracingContext and tracing()                                        *)
(* ------------------------------------------------------------------ *)
Contexts == 1..NumContexts
Frames == {1, 2}

NoScope == [kind |-> "none", ctx |-> 0, old_context |-> None, frame |-> 0,
            was |-> None]
NoExit == [op |-> "other", how |-> "none", scope |-> NoScope, before |-> None]

\* _CURRENT_TRACING_CONTEXT = None; TracingContext.__init__ of every context.
InitTracing ==
    /\ current = None
    /\ frame_summary_stack = [c \in Contexts |-> <<>>]
    /\ scopes = <<>>
    /\ exc = FALSE
    /\ tlast = NoExit

\* TracingContext.get
TracingContext_get == current

Top == scopes[Len(scopes)]
Pop(stack) == SubSeq(stack, 1, Len(stack) - 1)

\* `with tracing(context):` up to the yield.  `was` is history: the value of
\* _CURRENT_TRACING_CONTEXT when the scope was entered.
tracing_enter(context) ==
    /\ ~exc
    /\ Len(scopes) < MaxDepth
    /\ scopes' = Append(scopes, [NoScope EXCEPT !.kind = "tracing", !.ctx = context,
                                     !.old_context = current, !.was = current])
    /\ current' = Some(context)
    /\ tlast' = [NoExit EXCEPT !.op = "enter"]
    /\ UNCHANGED <<frame_summary_stack, exc>>

tracing_exit_no_finally(scope, cur, how) ==
    IF how = "error" THEN cur ELSE scope.old_context

\* tracing(): what _CURRENT_TRACING_CONTEXT is after the scope is left.  The
\* assignment is in a `finally`, so it runs however the scope is left.
tracing_exit(scope, cur, how) == scope.old_context

current_frame_enter_push_first(frame_summary) ==
    /\ ~exc
    /\ Len(scopes) < MaxDepth
    /\ LET tc == TracingContext_get IN
       IF tc = None
       THEN /\ exc' = TRUE
            /\ tlast' = [NoExit EXCEPT !.op = "assert",
                            !.before = Some(<<current, frame_summary_stack, scopes>>)]
            /\ frame_summary_stack' =
                   [frame_summary_stack EXCEPT ![1] = Append(@, frame_summary)]
            /\ UNCHANGED <<current, scopes>>
       ELSE /\ frame_summary_stack' =
                   [frame_summary_stack EXCEPT ![Val(tc)] = Append(@, frame_summary)]
            /\ scopes' = Append(scopes,
                   [NoScope EXCEPT !.kind = "current_frame", !.ctx = Val(tc),
                                   !.frame = frame_summary,
                                   !.was = Some(frame_summary_stack[Val(tc)])])
            /\ tlast' = [NoExit EXCEPT !.op = "enter"]
            /\ UNCHANGED <<current, exc>>

\* `with TracingContext.current_frame(frame_summary):` up to the yield.  With
\* no current context the assertion fails before anything is pushed.  `was` is
\* history: the frame stack of tc when the scope was entered; `before`, kept
\* when the assertion fails, is history too: the current context, the frame
\* stacks and the open scopes at the call.
current_frame_enter(frame_summary) ==
    /\ ~exc
    /\ Len(scopes) < MaxDepth
    /\ LET tc == TracingContext_get IN
       IF tc = None
       THEN /\ exc' = TRUE
            /\ tlast' = [NoExit EXCEPT !.op = "assert",
                            !.before = Some(<<current, frame_summary_stack, scopes>>)]
            /\ UNCHANGED <<current, frame_summary_stack, scopes>>
       ELSE /\ frame_summary_stack' =
                   [frame_summary_stack EXCEPT ![Val(tc)] = Append(@, frame_summary)]
            /\ scopes' = Append(scopes,
                   [NoScope EXCEPT !.kind = "current_frame", !.ctx = Val(tc),
                                   !.frame = frame_summary,
                                   !.was = Some(frame_summary_stack[Val(tc)])])
            /\ tlast' = [NoExit EXCEPT !.op = "enter"]
            /\ UNCHANGED <<current, exc>>

current_frame_exit_front(stack, how) == Tail(stack)

current_frame_exit_no_finally(stack, how) ==
    IF how = "error" THEN stack ELSE Pop(stack)

\* current_frame(): tc.frame_summary_stack after the scope is left.  The pop
\* is in a `finally`, so it runs however the scope is left.
current_frame_exit(stack, how) == Pop(stack)

\* The innermost open scope is left: its generator resumes after the yield
\* (how = "normal") or has the exception thrown into it (how = "error").
LeaveScope(how) ==
    /\ scopes # <<>>
    /\ scopes' = Pop(scopes)
    /\ tlast' = [NoExit EXCEPT !.op = "exit", !.how = how, !.scope = Top]
    /\ IF Top.kind = "tracing"
       THEN /\ current' = tracing_exit(Top, current, how)
            /\ UNCHANGED frame_summary_stack
       ELSE /\ frame_summary_stack' = [frame_summary_stack EXCEPT ![Top.ctx] =
                                           current_frame_exit(@, how)]
            /\ UNCHANGED current

\* The body of the innermost scope ends normally.
ExitNormal ==
    /\ ~exc
    /\ LeaveScope("normal")
    /\ UNCHANGED exc

\* The code running inside the open scopes (or outside any) raises an error.
Raise ==
    /\ ~exc
    /\ exc' = TRUE
    /\ tlast' = [NoExit EXCEPT !.op = "raise"]
    /\ UNCHANGED <<current, frame_summary_stack, scopes>>

\* The propagating error leaves the innermost scope.
ExitError ==
    /\ exc
    /\ LeaveScope("error")
    /\ UNCHANGED exc

\* A handler between two scopes, or the caller of the outermost one, catches
\* the error.
Catch ==
    /\ exc
    /\ exc' = FALSE
    /\ tlast' = [NoExit EXCEPT !.op = "catch"]
    /\ UNCHANGED <<current, frame_summary_stack, scopes>>

NextTracing ==
    \/ \E c \in Contexts : tracing_enter(c) /\ UNCHANGED <<varsG, varsM, varsA, ret>>
    \/ \E f \in Frames : current_frame_enter(f) /\ UNCHANGED <<varsG, varsM, varsA, ret>>
    \/ ExitNormal /\ UNCHANGED <<varsG, varsM, varsA, ret>>
    \/ Raise /\ UNCHANGED <<varsG, varsM, varsA, ret>>
    \/ ExitError /\ UNCHANGED <<varsG, varsM, varsA, ret>>
    \/ Catch /\ UNCHANGED <<varsG, varsM, varsA, ret>>

(* ------------------------------------------------------------------ *)
(* GuardsContext                                                       *)
(* ------------------------------------------------------------------ *)
LiveSet == setobj[dynamo_guards]
CheckpointSet(c) == setobj[gcheckpoints[c].dynamo_guards]

NoCall == [op |-> "other", cp |-> 0, before |-> {}, first |-> FALSE]

\* Inputs of SpecGuards.
CtxNames == {<<1>>, <<2>>}
CtxSources == {"LOCAL"}
CtxFns == {1}
CtxVolatile == {FALSE}

\* GuardsContext.__init__ (one context; no Guard object exists yet).
InitGuards ==
    /\ guards = <<>>
    /\ setobj = <<{}>>
    /\ dynamo_guards = 1
    /\ gcheckpoints = <<>>
    /\ gsnap = <<>>
    /\ grestored = <<>>
    /\ glast = NoCall

\* A caller constructs a Guard.
MakeGuard(name, source, create_fn, is_volatile) ==
    /\ Len(guards) < MaxGuards
    /\ guards' = Append(guards, NewGuardObject(name, source, create_fn, is_volatile))
    /\ glast' = NoCall
    /\ UNCHANGED <<setobj, dynamo_guards, gcheckpoints, gsnap, grestored>>

\* A caller runs  context.dynamo_guards.add(guard).
AddGuard(k) ==
    /\ k \in DOMAIN guards
    /\ setobj' = [setobj EXCEPT ![dynamo_guards] = SetAdd(guards, @, k)]
    /\ glast' = NoCall
    /\ UNCHANGED <<guards, dynamo_guards, gcheckpoints, gsnap, grestored>>

\* The number of set_export_info calls made on a Guard: each appends one guard_type.
ExportCalls(g) == IF g.guard_types = None THEN 0 ELSE Len(Val(g.guard_types))
RECURSIVE TotalExportCalls(_)
TotalExportCalls(heap) ==
    IF heap = <<>> THEN 0 ELSE ExportCalls(Head(heap)) + TotalExportCalls(Tail(heap))

\* A caller runs  guard.set_export_info(...)  on an existing Guard.
SetExportInfo(k, guard_type, guarded_class, code_list, obj_weakref) ==
    /\ k \in DOMAIN guards
    /\ TotalExportCalls(guards) < MaxExports
    /\ guards' = [guards EXCEPT ![k] =
           set_export_info(@, guard_type, guarded_class, code_list, obj_weakref).guard]
    /\ glast' = NoCall
    /\ UNCHANGED <<setobj, dynamo_guards, gcheckpoints, gsnap, grestored>>

\* GuardsCheckpointState.__init__: the checkpoint keeps the set it is given.
GuardsCheckpointState_init(dynamo_guards_arg) ==
    [dynamo_guards |-> dynamo_guards_arg]

\* GuardsContext.copy_graphstate: GuardsCheckpointState(set(self.dynamo_guards)).
\* set(...) allocates the set object at position Len(setobj) + 1.
GuardsContext_copy_graphstate ==
    /\ Len(gcheckpoints) < MaxCheckpoints
    /\ setobj' = Append(setobj, SetCopy(LiveSet))
    /\ gcheckpoints' = Append(gcheckpoints,
           GuardsCheckpointState_init(NewSetObject(dynamo_guards, Len(setobj) + 1)))
    /\ gsnap' = Append(gsnap, LiveSet)
    /\ grestored' = Append(grestored, FALSE)
    /\ asnap' = Append(asnap, aotautograd_guards)
    /\ glast' = NoCall
    /\ UNCHANGED <<guards, dynamo_guards, aotautograd_guards>>

\* GuardsContext.restore_graphstate: self.dynamo_guards = state.dynamo_guards.
\* The value is the set object the context holds after the call.
RestoredSet(live, state) == state.dynamo_guards

RestoredAot_reset(aot, state) == <<>>

\* The value of self.aotautograd_guards after restore_graphstate(state): the
\* method has no statement that assigns it.
RestoredAot(aot, state) == aot

GuardsContext_restore_graphstate(c) ==
    /\ c \in DOMAIN gcheckpoints
    /\ dynamo_guards' = RestoredSet(dynamo_guards, gcheckpoints[c])
    /\ grestored' = [grestored EXCEPT ![c] = TRUE]
    /\ glast' = [op |-> "restore", cp |-> c, before |-> LiveSet,
                 first |-> ~grestored[c]]
    /\ aotautograd_guards' = RestoredAot(aotautograd_guards, gcheckpoints[c])
    /\ UNCHANGED <<guards, setobj, gcheckpoints, gsnap, asnap>>

NextGuards ==
    \/ \E n \in CtxNames, s \in CtxSources, f \in CtxFns, v \in CtxVolatile :
           MakeGuard(n, s, f, v) /\ UNCHANGED <<varsT, varsM, varsA, ret>>
    \/ \E k \in 1..MaxGuards : AddGuard(k) /\ UNCHANGED <<varsT, varsM, varsA, ret>>
    \/ \E k \in 1..MaxGuards :
           SetExportInfo(k, 1, Some(1), <<1>>, Some(1)) /\ UNCHANGED <<varsT, varsM, varsA, ret>>
    \/ GuardsContext_copy_graphstate /\ UNCHANGED <<varsT, varsM, ret>>
    \/ \E c \in 1..MaxCheckpoints :
           GuardsContext_restore_graphstate(c) /\ UNCHANGED <<varsT, varsM, ret>>

(* ------------------------------------------------------------------ *)
(* ModuleContext                                                       *)
(* ------------------------------------------------------------------ *)
LiveDict == dictobj[names_to_sources]
ModuleCheckpointDict(c) == dictobj[mcheckpoints[c].names_to_sources]

\* Inputs of SpecModule: the names asked for and the Source objects.
ModuleNames == {1, 2}
ModuleSources == {1, 2}

NoModuleCall == [op |-> "other", cp |-> 0, before |-> <<>>, first |-> FALSE,
                 key |-> <<>>, source |-> 0, raised |-> FALSE]

\* ModuleContext.__init__
InitModule ==
    /\ dictobj = << <<>> >>
    /\ names_to_sources = 1
    /\ mcheckpoints = <<>>
    /\ issued = 0
    /\ msnap = <<>>
    /\ mrestored = <<>>
    /\ mlast = NoModuleCall

\* torch._dynamo.utils.unique_normalized_attr_name: a name built from the
\* one asked for that has never been issued before; `count` names were issued.
unique_normalized_attr_name(name, count) == <<name, count + 1>>

DictSet_no_store(d, key, value) == d

\* dict[key] = value
DictSet(d, key, value) == (key :> value) @@ d

\* ModuleContext.register
ModuleContext_register(name, source) ==
    /\ issued < MaxRegisters
    /\ LET key == unique_normalized_attr_name(name, issued) IN
       /\ issued' = issued + 1
       /\ IF key \in DOMAIN LiveDict
          THEN /\ mlast' = [NoModuleCall EXCEPT !.op = "register", !.key = key,
                                                !.source = source, !.raised = TRUE]
               /\ UNCHANGED dictobj
          ELSE /\ dictobj' = [dictobj EXCEPT ![names_to_sources] =
                                  DictSet(@, key, source)]
               /\ mlast' = [NoModuleCall EXCEPT !.op = "register", !.key = key,
                                                !.source = source,
                                                !.before = LiveDict]
    /\ UNCHANGED <<names_to_sources, mcheckpoints, msnap, mrestored>>

\* ModuleCheckpointState.__init__: the checkpoint keeps the dict it is given.
ModuleCheckpointState_init(names_to_sources_arg) ==
    [names_to_sources |-> names_to_sources_arg]

\* ModuleContext.copy_graphstate: ModuleCheckpointState(dict(self.names_to_sources)).
\* dict(...) allocates the dict object at position Len(dictobj) + 1.
ModuleContext_copy_graphstate ==
    /\ Len(mcheckpoints) < MaxModuleCheckpoints
    /\ dictobj' = Append(dictobj, LiveDict)
    /\ mcheckpoints' = Append(mcheckpoints, ModuleCheckpointState_init(Len(dictobj) + 1))
    /\ msnap' = Append(msnap, LiveDict)
    /\ mrestored' = Append(mrestored, FALSE)
    /\ mlast' = NoModuleCall
    /\ UNCHANGED <<names_to_sources, issued>>

ModuleRestore_merge(heap, live, state) ==
    [heap |-> [heap EXCEPT ![live] = heap[state.names_to_sources] @@ @],
     ref |-> live]

\* ModuleContext.restore_graphstate: self.names_to_sources = state.names_to_sources.
\* The value is the dict heap and the dict object the context holds after the call.
ModuleRestore(heap, live, state) ==
    [heap |-> heap, ref |-> state.names_to_sources]

ModuleContext_restore_graphstate(c) ==
    /\ c \in DOMAIN mcheckpoints
    /\ dictobj' = ModuleRestore(dictobj, names_to_sources, mcheckpoints[c]).heap
    /\ names_to_sources' = ModuleRestore(dictobj, names_to_sources, mcheckpoints[c]).ref
    /\ mrestored' = [mrestored EXCEPT ![c] = TRUE]
    /\ mlast' = [NoModuleCall EXCEPT !.op = "restore", !.cp = c, !.before = LiveDict,
                                     !.first = ~mrestored[c]]
    /\ UNCHANGED <<mcheckpoints, issued, msnap>>

NextModule ==
    \/ \E n \in ModuleNames, src \in ModuleSources :
           ModuleContext_register(n, src) /\ UNCHANGED <<varsG, varsT, varsA, ret>>
    \/ ModuleContext_copy_graphstate /\ UNCHANGED <<varsG, varsT, varsA, ret>>
    \/ \E c \in 1..MaxModuleCheckpoints :
           ModuleContext_restore_graphstate(c) /\ UNCHANGED <<varsG, varsT, varsA, ret>>

(* ------------------------------------------------------------------ *)
(* Comparisons: Guard == and hash, GuardsCheckpointState diff and ==   *)
(* ------------------------------------------------------------------ *)
NoRet == [op |-> "none", a |-> 0, b |-> 0, eq |-> FALSE, hash_eq |-> FALSE,
          diff |-> None, raised |-> FALSE, val |-> None, before |-> None,
          args |-> None]

\* Inputs of SpecGuardEq: two Guard objects, of any names, sources, create_fns
\* and volatility, and the arguments of set_export_info.
EqNames == {<<1>>, <<2>>}
EqSources == {"LOCAL", "GLOBAL"}
EqFns == {1, 2}
EqGuards ==
    {NewGuardObject(n, src, f, v) :
        n \in EqNames, src \in EqSources, f \in EqFns, v \in BOOLEAN}
EqClasses == {None, Some(1)}
EqWeakrefs == {None, Some(1)}

InitGuardEq ==
    /\ guards \in [1..2 -> EqGuards]
    /\ setobj = <<{}>>
    /\ dynamo_guards = 1
    /\ gcheckpoints = <<>>
    /\ gsnap = <<>>
    /\ grestored = <<>>
    /\ glast = NoCall
    /\ ret = NoRet

\* A caller evaluates  g1 == g2  and  hash(g1) == hash(g2).
CompareGuards(i, j) ==
    /\ ret' = [NoRet EXCEPT !.op = "compare", !.a = i, !.b = j,
                            !.eq = Guard_eq(guards[i], guards[j]),
                            !.hash_eq = (Guard_hash(guards[i]) = Guard_hash(guards[j]))]
    /\ UNCHANGED <<varsG, varsT, varsM, varsA>>

NextGuardEq ==
    \/ \E k \in 1..2, cls \in EqClasses, w \in EqWeakrefs :
           SetExportInfo(k, 1, cls, <<1>>, w) /\ ret' = NoRet /\ UNCHANGED <<varsT, varsM, varsA>>
    \/ \E i, j \in 1..2 : CompareGuards(i, j)

GuardsCheckpointState_diff_of_self(heap, self, other) ==
    LET r == SetDifference(heap, self, self)
    IN  IF Cardinality(r) = 0 THEN None ELSE Some(r)

\* GuardsCheckpointState.diff: `self` and `other` are the two guard sets.
GuardsCheckpointState_diff(heap, self, other) ==
    LET r == SetDifference(heap, self, other)
    IN  IF Cardinality(r) = 0 THEN None ELSE Some(r)

GuardsCheckpointState_eq_symmetric(heap, self, other) ==
    /\ GuardsCheckpointState_diff(heap, self, other) = None
    /\ GuardsCheckpointState_diff(heap, other, self) = None

\* GuardsCheckpointState.__eq__
GuardsCheckpointState_eq(heap, self, other) ==
    GuardsCheckpointState_diff(heap, self, other) = None

\* Inputs of SpecCheckpointState: a pool of Guard objects and two checkpoints
\* whose sets hold any of them, no two members of one set being ==.
PoolNames == {<<1>>, <<2>>}
PoolGuards ==
    {NewGuardObject(n, "LOCAL", 1, v) : n \in PoolNames, v \in BOOLEAN}
IsPythonSet(heap, s) ==
    \A m1, m2 \in s : m1 # m2 => ~Guard_eq(heap[m1], heap[m2])

InitCheckpointState ==
    /\ guards \in [1..MaxPoolGuards -> PoolGuards]
    /\ \E A, B \in SUBSET (1..MaxPoolGuards) :
          /\ IsPythonSet(guards, A) /\ IsPythonSet(guards, B)
          /\ setobj = <<{}, A, B>>
          /\ gsnap = <<A, B>>
    /\ dynamo_guards = 1
    /\ gcheckpoints = <<GuardsCheckpointState_init(2), GuardsCheckpointState_init(3)>>
    /\ grestored = <<FALSE, FALSE>>
    /\ glast = NoCall
    /\ ret = NoRet

\* A caller evaluates  a.diff(b)  on checkpoints a and b.
DiffCheckpoints(a, b) ==
    /\ ret' = [NoRet EXCEPT !.op = "diff", !.a = a, !.b = b,
                            !.diff = GuardsCheckpointState_diff(
                                         guards, CheckpointSet(a), CheckpointSet(b))]
    /\ UNCHANGED <<varsG, varsT, varsM, varsA>>

\* A caller evaluates  a == b  on checkpoints a and b.
CompareCheckpoints(a, b) ==
    /\ ret' = [NoRet EXCEPT !.op = "eq", !.a = a, !.b = b,
                            !.eq = GuardsCheckpointState_eq(
                                       guards, CheckpointSet(a), CheckpointSet(b))]
    /\ UNCHANGED <<varsG, varsT, varsM, varsA>>

NextCheckpointState ==
    \/ \E a, b \in 1..2 : DiffCheckpoints(a, b)
    \/ \E a, b \in 1..2 : CompareCheckpoints(a, b)

(* ------------------------------------------------------------------ *)
(* Specifications                                                      *)
(* ------------------------------------------------------------------ *)
\* GuardsContext.__init__: self.aotautograd_guards = []
InitAotList ==
    /\ aotautograd_guards = <<>>
    /\ asnap = <<>>

Init == InitGuards /\ InitTracing /\ InitModule /\ InitAotList /\ ret = NoRet

InitTwoGuards == InitGuardEq /\ InitTracing /\ InitModule /\ InitAotList

SpecGuardEq == InitTwoGuards /\ [][NextGuardEq]_vars

InitTwoCheckpoints == InitCheckpointState /\ InitTracing /\ InitModule /\ InitAotList

SpecCheckpointState == InitTwoCheckpoints /\ [][NextCheckpointState]_vars

SpecGuards == Init /\ [][NextGuards]_vars

SpecTracing == Init /\ [][NextTracing]_vars

SpecModule == Init /\ [][NextModule]_vars

(* ------------------------------------------------------------------ *)
(* Claims about GuardsContext, checked under SpecGuards                *)
(* ------------------------------------------------------------------ *)
\* The identity of a Guard as the specification defines it.
SameIdentity(g1, g2) ==
    /\ g1.name = g2.name
    /\ g1.source = g2.source
    /\ g1.create_fn = g2.create_fn

\* C1: restoring a checkpoint for the first time, whatever was added to the
\* live set since it was taken (nothing included), leaves the live guard set
\* equal to the set S the context held when the checkpoint was taken.
C1_RestoreRoundTrip ==
    (glast.op = "restore" /\ glast.first) => LiveSet = gsnap[glast.cp]

\* C1 witness: a first restore of a checkpoint of a non-empty set S that
\* removed guards added after the checkpoint.
C1_Witness ==
    /\ glast.op = "restore" /\ glast.first
    /\ gsnap[glast.cp] # {}
    /\ glast.before # gsnap[glast.cp]
    /\ gsnap[glast.cp] \subseteq glast.before
    /\ LiveSet = gsnap[glast.cp]

\* C2: the guard set a checkpoint holds is always the live guard set of the
\* moment the checkpoint was taken.
C2_CheckpointImmutable ==
    \A c \in DOMAIN gcheckpoints : CheckpointSet(c) = gsnap[c]

\* C3: every restore of a checkpoint, the first or a later one, leaves the live
\* guard set equal to the set held when the checkpoint was taken.
C3_EveryRestoreRollsBack ==
    glast.op = "restore" => LiveSet = gsnap[glast.cp]

\* C7: the live guard set never holds two members with the same
\* (name, source, create_fn).
C7_UniquePerIdentity ==
    \A m1, m2 \in LiveSet :
        SameIdentity(guards[m1], guards[m2]) => m1 = m2

(* ------------------------------------------------------------------ *)
(* Claims about tracing scopes, checked under SpecTracing              *)
(* ------------------------------------------------------------------ *)
\* The context of the innermost tracing scope among `open`, None if there is none.
RECURSIVE InnermostTracing(_)
InnermostTracing(open) ==
    IF open = <<>> THEN None
    ELSE IF open[Len(open)].kind = "tracing" THEN Some(open[Len(open)].ctx)
    ELSE InnermostTracing(Pop(open))

\* C4: get() is always the context of the innermost tracing scope still open,
\* None when there is none; and leaving a tracing scope, normally or by an
\* error, makes get() the value it had just before that scope was entered.
C4_InnermostScopeIsCurrent ==
    /\ TracingContext_get = InnermostTracing(scopes)
    /\ (tlast.op = "exit" /\ tlast.scope.kind = "tracing")
           => TracingContext_get = tlast.scope.was

\* C4 witness: an error has just left a tracing scope of B nested in a still
\* open tracing scope of another context A, and get() is A again.
C4_Witness ==
    /\ tlast.op = "exit" /\ tlast.how = "error" /\ tlast.scope.kind = "tracing"
    /\ scopes # <<>> /\ Top.kind = "tracing" /\ Top.ctx # tlast.scope.ctx
    /\ TracingContext_get = Some(Top.ctx)

\* C5: when a current_frame scope is left, normally or by an error, the frame
\* stack of its context is the stack as it was just before the scope was entered.
C5_FramePoppedOnEveryExit ==
    (tlast.op = "exit" /\ tlast.scope.kind = "current_frame")
        => Some(frame_summary_stack[tlast.scope.ctx]) = tlast.scope.was

\* C5 witness: an error has just left a current_frame scope that was entered
\* with a non-empty frame stack.
C5_Witness ==
    /\ tlast.op = "exit" /\ tlast.how = "error"
    /\ tlast.scope.kind = "current_frame"
    /\ tlast.scope.was # Some(<<>>)
    /\ Some(frame_summary_stack[tlast.scope.ctx]) = tlast.scope.was

(* ------------------------------------------------------------------ *)
(* Claims about ModuleContext, checked under SpecModule                *)
(* ------------------------------------------------------------------ *)
\* C10: restoring a checkpoint for the first time, after any registrations
\* made since it was taken, leaves names_to_sources equal to the mapping of the
\* moment the checkpoint was taken: the same names with the same sources.
C10_ModuleRestoreOverwrites ==
    (mlast.op = "restore" /\ mlast.first) => LiveDict = msnap[mlast.cp]

\* C10 witness: a first restore of a checkpoint of a non-empty mapping that
\* removed a name registered after the checkpoint.
C10_Witness ==
    /\ mlast.op = "restore" /\ mlast.first
    /\ DOMAIN msnap[mlast.cp] # {}
    /\ DOMAIN mlast.before # DOMAIN msnap[mlast.cp]
    /\ LiveDict = msnap[mlast.cp]

(* ------------------------------------------------------------------ *)
(* Claims about Guard identity, checked under SpecGuardEq              *)
(* ------------------------------------------------------------------ *)
\* C6: two Guards with the same name, source and create_fn have equal hashes
\* and are ==, whatever their export metadata; and two Guards are == exactly
\* when name, source and create_fn agree.
C6_EqualIffSameIdentity ==
    ret.op = "compare" =>
        LET g1 == guards[ret.a]
            g2 == guards[ret.b]
        IN  /\ SameIdentity(g1, g2) => (ret.hash_eq /\ ret.eq)
            /\ ret.eq <=> SameIdentity(g1, g2)

(* ------------------------------------------------------------------ *)
(* Claims about GuardsCheckpointState, checked under SpecCheckpointState *)
(* ------------------------------------------------------------------ *)
\* Python's `m in s` for a Guard m and a set s of Guards: s holds m or a Guard == m.
In(m, s) == \E n \in s : n = m \/ Guard_eq(guards[n], guards[m])

\* C8: a.diff(b) is the set of the members of a's guard set that are not in
\* b's, and it is None exactly when there is no such member.
C8_DiffIsSetDifference ==
    ret.op = "diff" =>
        LET A == CheckpointSet(ret.a)
            B == CheckpointSet(ret.b)
        IN  /\ (ret.diff = None) <=> (\A m \in A : In(m, B))
            /\ (ret.diff # None) =>
                   /\ Val(ret.diff) \subseteq A
                   /\ \A m \in A : (m \in Val(ret.diff)) <=> ~In(m, B)

\* C8 witness: A holds two guards and B one of them; A.diff(B) is the other
\* guard, and B.diff(A) is None.
C8_Witness ==
    /\ ret.op = "diff"
    /\ Cardinality(CheckpointSet(ret.a)) = 2
    /\ Cardinality(CheckpointSet(ret.b)) = 1
    /\ CheckpointSet(ret.b) \subseteq CheckpointSet(ret.a)
    /\ ret.diff = Some(CheckpointSet(ret.a) \ CheckpointSet(ret.b))
    /\ GuardsCheckpointState_diff(guards, CheckpointSet(ret.b), CheckpointSet(ret.a))
           = None

\* C9: a == b holds exactly when every member of a's guard set is in b's.
C9_EqIsSubset ==
    ret.op = "eq" =>
        (ret.eq <=> \A m \in CheckpointSet(ret.a) : In(m, CheckpointSet(ret.b)))

\* C9 witness: a == b is true although b == a is false.
C9_Witness ==
    /\ ret.op = "eq"
    /\ ret.eq
    /\ ~GuardsCheckpointState_eq(guards, CheckpointSet(ret.b), CheckpointSet(ret.a))

(* ------------------------------------------------------------------ *)
(* ModuleCheckpointState diff and ==                                   *)
(* ------------------------------------------------------------------ *)
\* ModuleCheckpointState.diff: `self` and `other` are the two mappings.
ModuleCheckpointState_diff(self, other) ==
    LET original_keys == DOMAIN self
        other_keys == DOMAIN other
        r == original_keys \ original_keys
    IN  IF Cardinality(r) = 0 THEN None ELSE Some(r)

\* ModuleCheckpointState.__eq__
ModuleCheckpointState_eq(self, other) ==
    ModuleCheckpointState_diff(self, other) = None

\* Inputs of SpecModuleCheckpointState: two checkpoints whose mappings give
\* Sources to any of three registered names.
PoolKeys == {<<1, 1>>, <<2, 2>>, <<1, 3>>}

InitModuleCheckpointState ==
    /\ \E KA, KB \in SUBSET PoolKeys :
         \E A \in [KA -> ModuleSources], B \in [KB -> ModuleSources] :
            /\ dictobj = << <<>>, A, B >>
            /\ msnap = <<A, B>>
    /\ names_to_sources = 1
    /\ mcheckpoints = <<ModuleCheckpointState_init(2), ModuleCheckpointState_init(3)>>
    /\ issued = Cardinality(PoolKeys)
    /\ mrestored = <<FALSE, FALSE>>
    /\ mlast = NoModuleCall
    /\ ret = NoRet

\* A caller evaluates  a.diff(b)  on module checkpoints a and b.
DiffModuleCheckpoints(a, b) ==
    /\ ret' = [NoRet EXCEPT !.op = "diff", !.a = a, !.b = b,
                            !.diff = ModuleCheckpointState_diff(
                                ModuleCheckpointDict(a), ModuleCheckpointDict(b))]
    /\ UNCHANGED <<varsG, varsT, varsM, varsA>>

\* A caller evaluates  a == b  on module checkpoints a and b.
CompareModuleCheckpoints(a, b) ==
    /\ ret' = [NoRet EXCEPT !.op = "eq", !.a = a, !.b = b,
                            !.eq = ModuleCheckpointState_eq(
                                ModuleCheckpointDict(a), ModuleCheckpointDict(b))]
    /\ UNCHANGED <<varsG, varsT, varsM, varsA>>

NextModuleCheckpointState ==
    \/ \E a, b \in 1..2 : DiffModuleCheckpoints(a, b)
    \/ \E a, b \in 1..2 : CompareModuleCheckpoints(a, b)

InitTwoModuleCheckpoints ==
    InitGuards /\ InitTracing /\ InitAotList /\ InitModuleCheckpointState

SpecModuleCheckpointState ==
    InitTwoModuleCheckpoints /\ [][NextModuleCheckpointState]_vars

\* C11: a.diff(b) is the set of the names that are keys of a's mapping and not
\* of b's, and it is None only when there is no such name.
C11_ModuleDiffIsKeyDifference ==
    ret.op = "diff" =>
        LET D == DOMAIN ModuleCheckpointDict(ret.a) \ DOMAIN ModuleCheckpointDict(ret.b)
        IN  /\ (ret.diff = None) <=> (D = {})
            /\ (D # {}) => ret.diff = Some(D)

(* ------------------------------------------------------------------ *)
(* Claims about ModuleContext.register, checked under SpecModule       *)
(* ------------------------------------------------------------------ *)
\* C12: with a uniquifier that never repeats a name, every register(name,
\* source) succeeds, adds exactly one new key, mapped to source, to the
\* mapping, and returns that key.
C12_RegisterAddsOneNewKey ==
    mlast.op = "register" =>
        /\ ~mlast.raised
        /\ mlast.key \notin DOMAIN mlast.before
        /\ DOMAIN LiveDict = DOMAIN mlast.before \cup {mlast.key}
        /\ LiveDict[mlast.key] = mlast.source
        /\ \A k \in DOMAIN mlast.before : LiveDict[k] = mlast.before[k]

\* C12 witness: a second registration under the same requested name; the
\* mapping holds the two distinct keys.
C12_Witness ==
    /\ mlast.op = "register" /\ ~mlast.raised
    /\ \E k \in DOMAIN mlast.before :
          /\ k[1] = mlast.key[1]
          /\ k # mlast.key
          /\ {k, mlast.key} \subseteq DOMAIN LiveDict

(* ------------------------------------------------------------------ *)
(* GuardSource.select, Guard.create and Source.make_guard              *)
(* ------------------------------------------------------------------ *)
GuardSource_select_shape_env_global(self, locals_, globals_) ==
    IF self \in {"LOCAL", "LOCAL_NN_MODULE", "RANDOM_VALUE"}
    THEN [raised |-> FALSE, val |-> Some(locals_)]
    ELSE IF self \in {"GLOBAL", "GLOBAL_NN_MODULE", "SHAPE_ENV"}
    THEN [raised |-> FALSE, val |-> Some(globals_)]
    ELSE [raised |-> TRUE, val |-> None]

\* GuardSource.select: the container returned, or NotImplementedError raised.
GuardSource_select(self, locals_, globals_) ==
    IF self \in {"LOCAL", "LOCAL_NN_MODULE", "SHAPE_ENV", "RANDOM_VALUE"}
    THEN [raised |-> FALSE, val |-> Some(locals_)]
    ELSE IF self \in {"GLOBAL", "GLOBAL_NN_MODULE"}
    THEN [raised |-> FALSE, val |-> Some(globals_)]
    ELSE [raised |-> TRUE, val |-> None]

\* Guard.create: self.create_fn(self.source.select(local_builder, global_builder), self).
\* The value is the call of create_fn that is made, None when select raises first.
Guard_create(g, local_builder, global_builder) ==
    LET sel == GuardSource_select(g.source, local_builder, global_builder)
    IN  IF sel.raised THEN [raised |-> TRUE, val |-> None]
        ELSE [raised |-> FALSE,
              val |-> Some([fn |-> g.create_fn, builder |-> Val(sel.val), guard |-> g])]

Source_make_guard_unchecked(src, fn, is_volatile) ==
    [raised |-> FALSE,
     val |-> Some(NewGuardObject(src.name, src.guard_source, fn, is_volatile))]

\* Source.make_guard.  A Source is modelled by what its subclass answers to
\* name() and guard_source().
Source_make_guard(src, fn, is_volatile) ==
    IF src.guard_source = "CONSTANT"
    THEN [raised |-> TRUE, val |-> None]
    ELSE [raised |-> FALSE,
          val |-> Some(NewGuardObject(src.name, src.guard_source, fn, is_volatile))]

\* Inputs of SpecSelect: the two builders (containers), the Sources, and the
\* arguments of Guard(...).
Builders == {"b1", "b2"}
SelectNames == {<<1>>, <<2>>}
SelectFns == {1, 2}
SelectSourceObjects == [name : SelectNames, guard_source : GuardSource]

\* A caller evaluates  source.select(locals_, globals_).
Select(source, locals_, globals_) ==
    /\ ret' = [NoRet EXCEPT !.op = "select",
                            !.args = Some(<<source, locals_, globals_>>),
                            !.raised = GuardSource_select(source, locals_, globals_).raised,
                            !.val = GuardSource_select(source, locals_, globals_).val]
    /\ UNCHANGED <<varsG, varsT, varsM, varsA>>

\* A caller constructs a Guard directly and keeps it in place of the one it held.
ConstructGuard(name, source, create_fn, is_volatile) ==
    /\ guards' = <<NewGuardObject(name, source, create_fn, is_volatile)>>
    /\ ret' = [NoRet EXCEPT !.op = "Guard"]
    /\ UNCHANGED <<setobj, dynamo_guards, gcheckpoints, gsnap, grestored, glast>>
    /\ UNCHANGED <<varsT, varsM, varsA>>

\* A caller runs  src.make_guard(fn, is_volatile)  and keeps the Guard returned,
\* if one is, in place of the one it held.
MakeGuardFromSource(src, fn, is_volatile) ==
    /\ LET r == Source_make_guard(src, fn, is_volatile) IN
       /\ guards' = IF r.raised THEN guards ELSE <<Val(r.val)>>
       /\ ret' = [NoRet EXCEPT !.op = "make_guard",
                               !.args = Some(<<src, fn, is_volatile>>),
                               !.raised = r.raised,
                               !.before = Some(guards)]
    /\ UNCHANGED <<setobj, dynamo_guards, gcheckpoints, gsnap, grestored, glast>>
    /\ UNCHANGED <<varsT, varsM, varsA>>

\* A caller runs  guard.create(local_builder, global_builder)  on the Guard it holds.
CreateGuard(local_builder, global_builder) ==
    /\ guards # <<>>
    /\ ret' = [NoRet EXCEPT !.op = "create",
                            !.args = Some(<<local_builder, global_builder>>),
                            !.raised = Guard_create(guards[1], local_builder,
                                                    global_builder).raised,
                            !.val = Guard_create(guards[1], local_builder,
                                                 global_builder).val]
    /\ UNCHANGED <<varsG, varsT, varsM, varsA>>

NextSelect ==
    \/ \E s \in GuardSource, l \in Builders, g \in Builders : Select(s, l, g)
    \/ \E n \in SelectNames, s \in GuardSource, f \in SelectFns, v \in BOOLEAN :
           ConstructGuard(n, s, f, v)
    \/ \E src \in SelectSourceObjects, f \in SelectFns, v \in BOOLEAN :
           MakeGuardFromSource(src, f, v)
    \/ \E l \in Builders, g \in Builders : CreateGuard(l, g)

SpecSelect == Init /\ [][NextSelect]_vars

\* The classification of the guard sources in the specification.
LocalsSources == {"LOCAL", "LOCAL_NN_MODULE", "SHAPE_ENV", "RANDOM_VALUE"}
GlobalsSources == {"GLOBAL", "GLOBAL_NN_MODULE"}

\* C13: select returns the locals container for LOCAL, LOCAL_NN_MODULE,
\* SHAPE_ENV and RANDOM_VALUE, the globals container for GLOBAL and
\* GLOBAL_NN_MODULE, and raises for CONSTANT; create calls create_fn with the
\* builder so chosen for the guard's source, and with the guard.
C13_SelectChoosesScope ==
    /\ ret.op = "select" =>
          LET a == Val(ret.args) IN
          /\ a[1] \in LocalsSources => (~ret.raised /\ ret.val = Some(a[2]))
          /\ a[1] \in GlobalsSources => (~ret.raised /\ ret.val = Some(a[3]))
          /\ a[1] = "CONSTANT" => (ret.raised /\ ret.val = None)
    /\ ret.op = "create" =>
          LET a == Val(ret.args)
              g == guards[1]
          IN  IF g.source = "CONSTANT" THEN ret.raised /\ ret.val = None
              ELSE /\ ~ret.raised
                   /\ ret.val = Some([fn |-> g.create_fn, guard |-> g,
                                      builder |-> IF g.source \in LocalsSources
                                                  THEN a[1] ELSE a[2]])

\* C13 witness: create on a SHAPE_ENV guard with two different builders calls
\* create_fn with the local one.
C13_Witness ==
    /\ ret.op = "create" /\ ~ret.raised
    /\ guards[1].source = "SHAPE_ENV"
    /\ Val(ret.args)[1] # Val(ret.args)[2]
    /\ Val(ret.val).builder = Val(ret.args)[1]

\* C14: make_guard fails and produces no Guard for a CONSTANT source; for any
\* other source it returns the Guard of the source's name and classification,
\* the given create_fn and the given is_volatile, and create on that Guard
\* does not fail in select.
C14_MakeGuardRejectsConstant ==
    ret.op = "make_guard" =>
        LET a == Val(ret.args)
            src == a[1]
        IN  IF src.guard_source = "CONSTANT"
            THEN ret.raised /\ Some(guards) = ret.before
            ELSE /\ ~ret.raised
                 /\ Len(guards) = 1
                 /\ guards[1].name = src.name
                 /\ guards[1].source = src.guard_source
                 /\ guards[1].create_fn = a[2]
                 /\ guards[1].is_volatile = a[3]
                 /\ \A l \in Builders, g \in Builders :
                       ~Guard_create(guards[1], l, g).raised

\* C14 witness: make_guard with is_volatile = True on a GLOBAL_NN_MODULE source
\* returned a volatile Guard.
C14_Witness ==
    /\ ret.op = "make_guard" /\ ~ret.raised
    /\ Val(ret.args)[3] = TRUE
    /\ guards[1].is_volatile
    /\ guards[1].source = "GLOBAL_NN_MODULE"

(* ------------------------------------------------------------------ *)
(* Repeated set_export_info calls on one Guard                         *)
(* ------------------------------------------------------------------ *)
MaxExportCalls == 2

\* Arguments of set_export_info: weak references (or None) to two classes and
\* two objects, one guard type, and code lists of length 0 and 1.
ExportGuardTypes == {1}
ExportClasses == {None, Some(1), Some(2)}
ExportObjects == {None, Some(1), Some(2)}
ExportCodeLists == {<<>>, <<1>>}

\* A caller runs  guard.set_export_info(...)  on the Guard it holds.
ExportCall(guard_type, guarded_class, code_list, obj_weakref) ==
    /\ guards # <<>>
    /\ ExportCalls(guards[1]) < MaxExportCalls
    /\ LET r == set_export_info(guards[1], guard_type, guarded_class, code_list,
                                obj_weakref) IN
       /\ guards' = <<r.guard>>
       /\ ret' = [NoRet EXCEPT !.op = "set_export_info",
                               !.before = Some(guards[1]),
                               !.args = Some(<<guard_type, guarded_class, code_list,
                                               obj_weakref>>),
                               !.raised = r.raised]
    /\ UNCHANGED <<setobj, dynamo_guards, gcheckpoints, gsnap, grestored, glast>>
    /\ UNCHANGED <<varsT, varsM, varsA>>

NextExport ==
    \/ \E n \in {<<1>>}, s \in {"LOCAL"}, f \in {1}, v \in {FALSE} :
           ConstructGuard(n, s, f, v)
    \/ \E t \in ExportGuardTypes, c \in ExportClasses, l \in ExportCodeLists,
          o \in ExportObjects : ExportCall(t, c, l, o)

SpecExport == Init /\ [][NextExport]_vars

\* C15: a set_export_info call returns normally only if each of guarded_class
\* and obj_weakref equals the stored value or the stored value is None; a call
\* with a value that differs from a stored non-None one raises; and a stored
\* non-None guarded_class_weakref or obj_weakref is the same after the call,
\* whether it returned or raised.
C15_ExportFieldsWriteOnce ==
    ret.op = "set_export_info" =>
        LET b == Val(ret.before)
            a == Val(ret.args)
            g == guards[1]
            classOk == b.guarded_class_weakref \in {None, a[2]}
            objOk == b.obj_weakref \in {None, a[4]}
        IN  /\ ~ret.raised => (classOk /\ objOk)
            /\ ~(classOk /\ objOk) => ret.raised
            /\ b.guarded_class_weakref # None =>
                   g.guarded_class_weakref = b.guarded_class_weakref
            /\ b.obj_weakref # None => g.obj_weakref = b.obj_weakref

\* C15 witness: a call passing another class than the stored one raised and
\* the stored class is still there.
C15_Witness ==
    /\ ret.op = "set_export_info" /\ ret.raised
    /\ Val(ret.before).guarded_class_weakref = Some(1)
    /\ Val(ret.args)[2] = Some(2)
    /\ guards[1].guarded_class_weakref = Some(1)

(* ------------------------------------------------------------------ *)
(* Guard.sort_key, Guard.__lt__ and sorted() of a set of guards        *)
(* ------------------------------------------------------------------ *)
\* create_fn.__code__.co_firstlineno: the line of its file on which the
\* function's definition starts.  Functions 1 and 2 start on the same line
\* (two lambdas written on one line, or two functions of different files), 3 on
\* another.
co_firstlineno(create_fn) ==
    CASE create_fn = 1 -> 10
      [] create_fn = 2 -> 10
      [] create_fn = 3 -> 20

\* str < str: lexicographic by character, a proper prefix being smaller.
RECURSIVE StrLess(_, _)
StrLess(s, t) ==
    IF t = <<>> THEN FALSE
    ELSE IF s = <<>> THEN TRUE
    ELSE IF Head(s) # Head(t) THEN Head(s) < Head(t)
    ELSE StrLess(Tail(s), Tail(t))

\* Guard.sort_key.  Every member of the enum GuardSource is truthy, so the
\* first component is source.value for every Guard whose source is a
\* GuardSource.
sort_key(g) ==
    [source |-> GuardSourceValue(g.source),
     len |-> Len(g.name),
     name |-> g.name,
     line |-> co_firstlineno(g.create_fn)]

\* tuple < tuple on two sort keys: the first component that differs decides.
SortKeyLess(k1, k2) ==
    IF k1.source # k2.source THEN k1.source < k2.source
    ELSE IF k1.len # k2.len THEN k1.len < k2.len
    ELSE IF k1.name # k2.name THEN StrLess(k1.name, k2.name)
    ELSE k1.line < k2.line

\* Guard.__lt__
Guard_lt(self, other) == SortKeyLess(sort_key(self), sort_key(other))

\* sorted(iterable): a stable sort that compares with < only.  `order` is the
\* sequence in which the iterable yields its elements.
RECURSIVE InsertSorted(_, _)
InsertSorted(x, s) ==
    IF s = <<>> THEN <<x>>
    ELSE IF Guard_lt(x, Head(s)) THEN <<x>> \o s
    ELSE <<Head(s)>> \o InsertSorted(x, Tail(s))
RECURSIVE sorted(_)
sorted(order) ==
    IF order = <<>> THEN <<>>
    ELSE InsertSorted(order[Len(order)], sorted(SubSeq(order, 1, Len(order) - 1)))

\* Inputs of SpecOrder: three Guard objects of any of these names, sources and
\* create_fns.
OrderNames == {<<1>>, <<2>>, <<1, 1>>}
OrderSources == {"LOCAL", "GLOBAL"}
OrderFns == {1, 2, 3}
OrderGuards ==
    {NewGuardObject(n, src, f, FALSE) :
        n \in OrderNames, src \in OrderSources, f \in OrderFns}
NumOrderGuards == 3

InitOrder ==
    /\ guards \in [1..NumOrderGuards -> OrderGuards]
    /\ setobj = <<{}>>
    /\ dynamo_guards = 1
    /\ gcheckpoints = <<>>
    /\ gsnap = <<>>
    /\ grestored = <<>>
    /\ glast = NoCall
    /\ ret = NoRet

\* A caller evaluates  g1 < g2.
CompareOrder(i, j) ==
    /\ ret' = [NoRet EXCEPT !.op = "lt", !.a = i, !.b = j,
                            !.eq = Guard_lt(guards[i], guards[j])]
    /\ UNCHANGED <<varsG, varsT, varsM, varsA>>

\* The orders in which iterating a set with members S can yield them.
IterationOrders(S) ==
    {p \in [1..Cardinality(S) -> S] : \A i, j \in DOMAIN p : i # j => p[i] # p[j]}

\* A caller evaluates  sorted(s)  for a set s of guards; the set yields its
\* members in the order of their hashes in its table, which Guard.__hash__
\* makes depend on id(create_fn).
SortGuards(S, order) ==
    /\ IsPythonSet(guards, S)
    /\ order \in IterationOrders(S)
    /\ ret' = [NoRet EXCEPT !.op = "sorted",
                            !.args = Some(S),
                            !.val = Some(sorted([i \in DOMAIN order |-> guards[order[i]]]))]
    /\ UNCHANGED <<varsG, varsT, varsM, varsA>>

NextOrder ==
    \/ \E i, j \in 1..NumOrderGuards : CompareOrder(i, j)
    \/ \E S \in SUBSET (1..NumOrderGuards) :
           \E order \in IterationOrders(S) : SortGuards(S, order)

InitThreeGuards == InitOrder /\ InitTracing /\ InitModule /\ InitAotList

SpecOrder == InitThreeGuards /\ [][NextOrder]_vars

\* g < g holds for no guard.
OrderIrreflexive == \A i \in DOMAIN guards : ~Guard_lt(guards[i], guards[i])

\* g1 < g2 and g2 < g3 give g1 < g3.
OrderTransitive ==
    \A i, j, k \in DOMAIN guards :
        (Guard_lt(guards[i], guards[j]) /\ Guard_lt(guards[j], guards[k]))
            => Guard_lt(guards[i], guards[k])

\* g1 < g2 holds exactly when g1's sort key is the smaller one.
OrderFollowsSortKey ==
    ret.op = "lt" =>
        (ret.eq <=> SortKeyLess(sort_key(guards[ret.a]), sort_key(guards[ret.b])))

\* Of two guards that differ in name, source or create_fn, exactly one is
\* smaller than the other.
OrderTrichotomy ==
    \A i, j \in DOMAIN guards :
        ~SameIdentity(guards[i], guards[j])
            => (Guard_lt(guards[i], guards[j]) # Guard_lt(guards[j], guards[i]))

\* sorted(s) is the same sequence whatever order the set yields its members in.
SortDeterministic ==
    ret.op = "sorted" =>
        \A order \in IterationOrders(Val(ret.args)) :
            sorted([i \in DOMAIN order |-> guards[order[i]]]) = Val(ret.val)

\* C16: g1 < g2 is a strict total order consistent with sort_key: no guard is
\* smaller than itself, the order is transitive, of two guards that are not
\* equal exactly one is smaller than the other, and sorting a set of guards
\* gives one sequence however the set is iterated.
C16_OrderIsStrictTotal ==
    /\ OrderIrreflexive
    /\ OrderTransitive
    /\ OrderFollowsSortKey
    /\ OrderTrichotomy
    /\ SortDeterministic

(* ------------------------------------------------------------------ *)
(* DuplicateInputs and GuardsContext.aotautograd_guards                *)
(* ------------------------------------------------------------------ *)
MaxAotGuards == 2

\* Source objects handed to DuplicateInputs: `id` is the object, `value` what
\* the == of the Source dataclass compares.  Objects 1 and 2 are equal.
\* DupFirst and DupSecond are the objects passed as first and second argument.
DupSources == {[id |-> 1, value |-> 1], [id |-> 2, value |-> 1], [id |-> 3, value |-> 2]}
DupFirst == {src \in DupSources : src.id \in {1, 3}}
DupSecond == {src \in DupSources : src.id \in {1, 2}}

\* a == b on two Source objects (the dataclass-generated __eq__).
Source_eq(a, b) == a.value = b.value

DuplicateInputs_init_identity(input_source_a, input_source_b) ==
    IF input_source_a.id = input_source_b.id
    THEN [raised |-> TRUE, val |-> None]
    ELSE [raised |-> FALSE,
          val |-> Some([input_source_a |-> input_source_a,
                        input_source_b |-> input_source_b])]

\* DuplicateInputs(input_source_a, input_source_b): the dataclass __init__
\* followed by __post_init__, whose assert raises AssertionError.
DuplicateInputs_init(input_source_a, input_source_b) ==
    IF Source_eq(input_source_a, input_source_b)
    THEN [raised |-> TRUE, val |-> None]
    ELSE [raised |-> FALSE,
          val |-> Some([input_source_a |-> input_source_a,
                        input_source_b |-> input_source_b])]

\* A caller runs  context.aotautograd_guards.append(DuplicateInputs(a, b)):
\* when the constructor raises there is nothing to append.
AppendDuplicateInputs(a, b) ==
    /\ Len(aotautograd_guards) < MaxAotGuards
    /\ LET r == DuplicateInputs_init(a, b) IN
       /\ aotautograd_guards' = IF r.raised THEN aotautograd_guards
                                ELSE Append(aotautograd_guards, Val(r.val))
       /\ ret' = [NoRet EXCEPT !.op = "DuplicateInputs",
                               !.args = Some(<<a, b>>),
                               !.raised = r.raised,
                               !.val = r.val,
                               !.before = Some(aotautograd_guards)]
    /\ glast' = NoCall
    /\ UNCHANGED <<guards, setobj, dynamo_guards, gcheckpoints, gsnap, grestored>>
    /\ UNCHANGED <<asnap, varsT, varsM>>

NextAot ==
    \/ MakeGuard(<<1>>, "LOCAL", 1, FALSE) /\ UNCHANGED <<varsT, varsM, varsA, ret>>
    \/ \E k \in 1..MaxGuards : AddGuard(k) /\ UNCHANGED <<varsT, varsM, varsA, ret>>
    \/ GuardsContext_copy_graphstate /\ ret' = NoRet /\ UNCHANGED <<varsT, varsM>>
    \/ \E c \in 1..MaxCheckpoints :
           /\ GuardsContext_restore_graphstate(c)
           /\ ret' = [NoRet EXCEPT !.op = "restore",
                                   !.before = Some(aotautograd_guards)]
           /\ UNCHANGED <<varsT, varsM>>
    \/ \E a \in DupFirst, b \in DupSecond : AppendDuplicateInputs(a, b)

SpecAot == Init /\ [][NextAot]_vars

\* C17: a checkpoint holds the guard set and nothing else, and after
\* restore_graphstate the aotautograd_guards list is the list the context had
\* just before the call, so what was appended since the checkpoint was taken
\* is still there, in order.
C17_AotGuardsOutsideCheckpoint ==
    /\ \A c \in DOMAIN gcheckpoints : DOMAIN gcheckpoints[c] = {"dynamo_guards"}
    /\ (glast.op = "restore" /\ ret.op = "restore") =>
           /\ aotautograd_guards = Val(ret.before)
           /\ Len(asnap[glast.cp]) <= Len(aotautograd_guards)
           /\ SubSeq(aotautograd_guards, 1, Len(asnap[glast.cp])) = asnap[glast.cp]

\* C17 witness: a checkpoint was restored after an entry had been appended to
\* the list since it was taken, and the live guard set had grown as well.
C17_Witness ==
    /\ glast.op = "restore" /\ ret.op = "restore"
    /\ Len(aotautograd_guards) > Len(asnap[glast.cp])
    /\ glast.before # gsnap[glast.cp]

\* C19: DuplicateInputs(a, b) raises whenever a == b, be they one object or
\* two, and then no value comes to exist; every DuplicateInputs in the list
\* has input_source_a != input_source_b.
C19_DuplicateInputsDistinct ==
    /\ ret.op = "DuplicateInputs" =>
          LET a == Val(ret.args)[1]
              b == Val(ret.args)[2]
          IN  /\ Source_eq(a, b) =>
                    (ret.raised /\ ret.val = None
                     /\ aotautograd_guards = Val(ret.before))
              /\ ~ret.raised =>
                    /\ ~Source_eq(a, b)
                    /\ ret.val = Some([input_source_a |-> a, input_source_b |-> b])
    /\ \A i \in DOMAIN aotautograd_guards :
          ~Source_eq(aotautograd_guards[i].input_source_a,
                     aotautograd_guards[i].input_source_b)

\* C19 witness: after one DuplicateInputs was made, constructing one from a
\* single source passed twice raised.
C19_Witness ==
    /\ ret.op = "DuplicateInputs" /\ ret.raised
    /\ Val(ret.args)[1] = Val(ret.args)[2]
    /\ Len(aotautograd_guards) = 1

(* ------------------------------------------------------------------ *)
(* More claims about tracing scopes, checked under SpecTracing         *)
(* ------------------------------------------------------------------ *)
\* C18: when current_frame is called with no current context, the call raises
\* and its scope is not entered: the current context is still None, and the
\* frame stack of every context and the open scopes are what they were at the
\* call.  No current_frame scope is ever open without a context it pushed to.
C18_CurrentFrameNeedsContext ==
    /\ tlast.op = "assert" =>
          /\ exc
          /\ TracingContext_get = None
          /\ Val(tlast.before) = <<current, frame_summary_stack, scopes>>
    /\ \A i \in DOMAIN scopes :
          scopes[i].kind = "current_frame" =>
              InnermostTracing(SubSeq(scopes, 1, i - 1)) # None

\* C18 witness: current_frame has just failed for want of a context; no scope
\* is open and every frame stack is empty, as before the call.
C18_Witness ==
    /\ tlast.op = "assert" /\ exc
    /\ TracingContext_get = None
    /\ scopes = <<>>
    /\ \A c \in Contexts : frame_summary_stack[c] = <<>>

\* The frames, in entry order, of the current_frame scopes among `open` that
\* were entered while context c was current.
RECURSIVE FramesEnteredUnder(_, _)
FramesEnteredUnder(open, c) ==
    IF open = <<>> THEN <<>>
    ELSE LET rest == FramesEnteredUnder(Pop(open), c)
             last == open[Len(open)]
         IN  IF last.kind = "current_frame" /\ InnermostTracing(Pop(open)) = Some(c)
             THEN Append(rest, last.frame)
             ELSE rest

\* C20: the frame stack of each context is, in entry order, the frames of the
\* open current_frame scopes that were entered while that context was current,
\* whatever tracing scopes of other contexts are open inside or around them
\* and however scopes have been left.
C20_FramesFollowEntryContext ==
    \A c \in Contexts : frame_summary_stack[c] = FramesEnteredUnder(scopes, c)

\* C20 witness: a current_frame scope of context B is open inside a tracing
\* scope of B, itself inside an open current_frame scope of another context A;
\* A's stack holds A's frame only and B's stack B's frame only.
C20_Witness ==
    /\ Len(scopes) = 4
    /\ scopes[1].kind = "tracing" /\ scopes[2].kind = "current_frame"
    /\ scopes[3].kind = "tracing" /\ scopes[4].kind = "current_frame"
    /\ scopes[1].ctx # scopes[3].ctx
    /\ scopes[2].frame # scopes[4].frame
    /\ frame_summary_stack[scopes[1].ctx] = <<scopes[2].frame>>
    /\ frame_summary_stack[scopes[3].ctx] = <<scopes[4].frame>>

====
